---- MODULE Spec2Model ----
(***************************************************************************)
(* Model of the thread-safe job scheduler (scheduler.cpp): one mutex, one  *)
(* condition variable, a pool of worker threads popping a time-ordered     *)
(* priority queue, lazy cancellation, bounded queue, two shutdown modes.   *)
(*                                                                         *)
(* Granularity: everything a thread does between acquiring and releasing   *)
(* queueMutex_ is one action, so the mutex itself needs no variable.  The  *)
(* steps a thread makes without the mutex (the closure, the atomic         *)
(* counters, join) are actions of their own.  The clock is a bounded       *)
(* integer advanced by Tick; a critical section takes no time.             *)
(***************************************************************************)
EXTENDS Integers, FiniteSets, Sequences, TLC

\* ---------------------------------------------------------------- bounds
NumWorkers == 2
MaxQueueSize == 2
MaxJobs == 2
MaxTime == 1
NumCallers == 2

\* ------------------------------------------------------- program constants
Low == 0
Normal == 1
High == 2

Priority == {Low, Normal, High}
ShutdownMode == {"Graceful", "Immediate"}
Workers == 1..NumWorkers
Callers == 1..NumCallers
JobIds == 1..MaxJobs
TimePoints == 0..MaxTime

VARIABLES
    maxQueueSize_,  \* maxQueueSize_, the constructor's second argument
    queue,          \* queue_: set of Job records (ids are unique)
    cancelled,      \* cancelled_: set of ids mapped to true
    accepting,      \* accepting_
    stopWorkers,    \* stopWorkers_
    shutdownMode,   \* shutdownMode_
    nextId,         \* nextId_
    runningJobs,    \* runningJobs_
    completedJobs,  \* completedJobs_
    totalWaitNs,    \* totalWaitNs_
    pc,             \* position of each worker thread in workerLoop
    job,            \* workerLoop's local `job` of each worker
    nextRunAt,      \* workerLoop's local `nextRunAt` of each worker
    joinable,       \* workers_[i].joinable()
    sd,             \* the shutdown() call of each calling thread
    now,            \* Clock::now()
    issued,         \* history: the ids schedule() returned, in call order
    invoked,        \* history: ids of the jobs whose closure was invoked
    preCancelled,   \* history: ids whose cancel was accepted before their pop
    queuedCancelled, \* history: ids whose cancel was accepted while queued
    refused,        \* history: ids whose cancel was refused while queued
    dropped,        \* history: ids discarded by an Immediate shutdown
    invokedAt       \* history: Clock::now() when the worker entered job.fn()

vars == <<maxQueueSize_, queue, cancelled, accepting, stopWorkers, shutdownMode, nextId,
          runningJobs, completedJobs, totalWaitNs, pc, job, nextRunAt,
          joinable, sd, now, issued, invoked, preCancelled,
          queuedCancelled, refused, dropped, invokedAt>>

\* ------------------------------------------------------------------ types
Job(i, r, p, e) == [id |-> i, runAt |-> r, priority |-> p, enqueuedAt |-> e]

NoJob == Job(0, 0, Normal, 0)

\* mutant of JobCompare: the priority is compared before runAt
JobCompare_priorityFirst(a, b) ==
    IF a.priority # b.priority THEN a.priority < b.priority
    ELSE IF a.runAt # b.runAt THEN a.runAt > b.runAt
    ELSE a.id > b.id

\* mutant of JobCompare: the priority test is reversed
JobCompare_lowFirst(a, b) ==
    IF a.runAt # b.runAt THEN a.runAt > b.runAt
    ELSE IF a.priority # b.priority THEN a.priority > b.priority
    ELSE a.id > b.id

\* JobCompare::operator(): TRUE when a is ordered below b (b is nearer the top)
JobCompare(a, b) ==
    IF a.runAt # b.runAt THEN a.runAt > b.runAt
    ELSE IF a.priority # b.priority THEN a.priority < b.priority
    ELSE a.id > b.id

\* priority_queue::top(): the element no other element is ordered above
Top(q) == CHOOSE j \in q : \A k \in q \ {j} : ~JobCompare(j, k)

Ids(q) == {j.id : j \in q}

\* threads blocked in queueCv_.wait / wait_until
Waiting(p) == {w \in Workers : p[w] \in {"waitE", "waitT"}}

Wake(p, S) == [w \in Workers |->
                 IF w \in S
                 THEN (IF p[w] = "waitE" THEN "wokenE" ELSE "wokenT")
                 ELSE p[w]]

\* queueCv_.notify_one(): one blocked thread, if any, is unblocked
notify_one(p) == IF Waiting(p) = {} THEN {p}
                 ELSE {Wake(p, {w}) : w \in Waiting(p)}

\* queueCv_.notify_all()
notify_all(p) == Wake(p, Waiting(p))

\* --------------------------------------------------------------- initial
\* Scheduler::Scheduler(workerCount, maxQueueSize), with NumWorkers threads
\* started at workerLoop
Init ==
    /\ maxQueueSize_ \in 1..MaxQueueSize
    /\ queue = {}
    /\ cancelled = {}
    /\ accepting = TRUE
    /\ stopWorkers = FALSE
    /\ shutdownMode = "Graceful"
    /\ nextId = 1
    /\ runningJobs = 0
    /\ completedJobs = 0
    /\ totalWaitNs = 0
    /\ pc = [w \in Workers |-> "start"]
    /\ job = [w \in Workers |-> NoJob]
    /\ nextRunAt = [w \in Workers |-> 0]
    /\ joinable = [w \in Workers |-> TRUE]
    /\ sd = [c \in Callers |-> [pc |-> "idle", mode |-> "Graceful", i |-> 1]]
    /\ now = 0
    /\ issued = <<>>
    /\ invoked = {}
    /\ queuedCancelled = {}
    /\ preCancelled = {}
    /\ refused = {}
    /\ dropped = {}
    /\ invokedAt = [w \in Workers |-> 0]

\* ------------------------------------------------------------ public API
\* std::nullopt
nullopt == 0

\* mutant of scheduleReturn: no test of accepting_
scheduleReturn_noAccepting ==
    IF Cardinality(queue) >= maxQueueSize_ THEN nullopt ELSE nextId

\* mutant of scheduleReturn: no test of the queue size
scheduleReturn_unbounded == IF ~accepting THEN nullopt ELSE nextId

\* what Scheduler::schedule returns when called in the current state
scheduleReturn ==
    IF ~accepting \/ Cardinality(queue) >= maxQueueSize_ THEN nullopt
    ELSE nextId

\* mutant of schedule: no worker is notified of the new job
schedule_noNotify(runAt, priority) ==
    /\ IF scheduleReturn = nullopt
       THEN UNCHANGED <<queue, nextId, pc, issued>>
       ELSE /\ nextId <= MaxJobs
            /\ nextId' = nextId + 1
            /\ queue' = queue \cup {Job(nextId, runAt, priority, now)}
            /\ pc' = pc
            /\ issued' = Append(issued, scheduleReturn)
    /\ UNCHANGED <<maxQueueSize_, cancelled, accepting, stopWorkers,
                   shutdownMode, runningJobs, completedJobs, totalWaitNs,
                   job, nextRunAt, joinable, sd, now, invoked, preCancelled,
                   queuedCancelled, refused, dropped,
                   invokedAt>>

\* mutant of schedule: the identifier is allocated before the acceptance test
schedule_rejectConsumes(runAt, priority) ==
    /\ nextId <= MaxJobs
    /\ nextId' = nextId + 1
    /\ IF scheduleReturn = nullopt
       THEN UNCHANGED <<queue, pc, issued>>
       ELSE /\ queue' = queue \cup {Job(nextId, runAt, priority, now)}
            /\ pc' \in notify_one(pc)
            /\ issued' = Append(issued, scheduleReturn)
    /\ UNCHANGED <<maxQueueSize_, cancelled, accepting, stopWorkers,
                   shutdownMode, runningJobs, completedJobs, totalWaitNs,
                   job, nextRunAt, joinable, sd, now, invoked, preCancelled,
                   queuedCancelled, refused, dropped,
                   invokedAt>>

\* Scheduler::schedule
schedule(runAt, priority) ==
    /\ IF scheduleReturn = nullopt
       THEN UNCHANGED <<queue, nextId, pc, issued>>
       ELSE /\ nextId <= MaxJobs
            /\ nextId' = nextId + 1
            /\ queue' = queue \cup {Job(nextId, runAt, priority, now)}
            /\ pc' \in notify_one(pc)
            /\ issued' = Append(issued, scheduleReturn)
    /\ UNCHANGED <<maxQueueSize_, cancelled, accepting, stopWorkers,
                   shutdownMode, runningJobs, completedJobs, totalWaitNs,
                   job, nextRunAt, joinable, sd, now, invoked, preCancelled,
                   queuedCancelled, refused, dropped,
                   invokedAt>>

\* what Scheduler::cancel returns when called in the current state
cancelReturn == IF ~accepting THEN FALSE ELSE TRUE

\* mutant of cancel: the id is marked also when the call is refused
cancel_unguarded(id, observed) ==
    /\ cancelled' = cancelled \cup {id}
    /\ IF cancelReturn = FALSE
       THEN /\ refused' = IF observed /\ id \in Ids(queue)
                          THEN refused \cup {id}
                          ELSE refused
            /\ UNCHANGED <<preCancelled, queuedCancelled>>
       ELSE /\ preCancelled' = IF id >= nextId \/ id \in Ids(queue)
                               THEN preCancelled \cup {id}
                               ELSE preCancelled
            /\ queuedCancelled' = IF observed /\ id \in Ids(queue)
                                  THEN queuedCancelled \cup {id}
                                  ELSE queuedCancelled
            /\ UNCHANGED refused
    /\ UNCHANGED <<maxQueueSize_, queue, accepting, stopWorkers,
                   shutdownMode, nextId, runningJobs, completedJobs,
                   totalWaitNs, pc, job, nextRunAt, joinable, sd, now,
                   issued, invoked, dropped,
                   invokedAt>>

\* Scheduler::cancel.  The histories queuedCancelled and refused are kept
\* only for the calls that are observed.
cancel(id, observed) ==
    /\ IF cancelReturn = FALSE
       THEN /\ refused' = IF observed /\ id \in Ids(queue)
                          THEN refused \cup {id}
                          ELSE refused
            /\ UNCHANGED <<cancelled, preCancelled, queuedCancelled>>
       ELSE /\ cancelled' = cancelled \cup {id}
            /\ preCancelled' = IF id >= nextId \/ id \in Ids(queue)
                               THEN preCancelled \cup {id}
                               ELSE preCancelled
            /\ queuedCancelled' = IF observed /\ id \in Ids(queue)
                                  THEN queuedCancelled \cup {id}
                                  ELSE queuedCancelled
            /\ UNCHANGED refused
    /\ UNCHANGED <<maxQueueSize_, queue, accepting, stopWorkers,
                   shutdownMode, nextId, runningJobs, completedJobs,
                   totalWaitNs, pc, job, nextRunAt, joinable, sd, now,
                   issued, invoked, dropped,
                   invokedAt>>

\* mutant of JoinFrom: shutdown() returns without joining the workers
JoinFrom_noJoin(c, mode, i, jn) == [pc |-> "done", mode |-> mode, i |-> 1]

\* Scheduler::joinWorkers, lines 327-328, from worker i on: the caller skips
\* the workers that are not joinable() and enters join() of the first one
\* that is; past the last worker, shutdown() returns (line 210)
JoinFrom(c, mode, i, jn) ==
    IF \E k \in i..NumWorkers : jn[k]
    THEN [pc |-> "injoin", mode |-> mode,
          i |-> CHOOSE k \in i..NumWorkers :
                    jn[k] /\ \A l \in i..NumWorkers : jn[l] => k <= l]
    ELSE [pc |-> "done", mode |-> mode, i |-> 1]

\* mutant of shutdown: an Immediate request leaves the queue as it is
shutdown_noClear(c, mode) ==
    /\ sd[c].pc = "idle"
    /\ \A d \in Callers : d < c => sd[d].pc # "idle"
    /\ accepting' = FALSE
    /\ shutdownMode' = mode
    /\ IF mode = "Immediate"
       THEN /\ stopWorkers' = TRUE
            /\ UNCHANGED <<queue, dropped>>
       ELSE /\ stopWorkers' = (stopWorkers \/ queue = {})
            /\ UNCHANGED <<queue, dropped>>
    /\ pc' = notify_all(pc)
    /\ sd' = [sd EXCEPT ![c] = JoinFrom(c, mode, 1, joinable)]
    /\ UNCHANGED <<maxQueueSize_, cancelled, nextId, runningJobs,
                   completedJobs, totalWaitNs, job, nextRunAt, joinable, now,
                   issued, invoked, preCancelled, queuedCancelled, refused,
                   invokedAt>>

\* mutant of shutdown: an Immediate request pops the head only (if for while)
shutdown_popOnce(c, mode) ==
    /\ sd[c].pc = "idle"
    /\ \A d \in Callers : d < c => sd[d].pc # "idle"
    /\ accepting' = FALSE
    /\ shutdownMode' = mode
    /\ IF mode = "Immediate"
       THEN /\ queue' = IF queue = {} THEN {} ELSE queue \ {Top(queue)}
            /\ stopWorkers' = TRUE
            /\ dropped' = IF queue = {} THEN dropped
                          ELSE dropped \cup {Top(queue).id}
       ELSE /\ stopWorkers' = (stopWorkers \/ queue = {})
            /\ UNCHANGED <<queue, dropped>>
    /\ pc' = notify_all(pc)
    /\ sd' = [sd EXCEPT ![c] = JoinFrom(c, mode, 1, joinable)]
    /\ UNCHANGED <<maxQueueSize_, cancelled, nextId, runningJobs,
                   completedJobs, totalWaitNs, job, nextRunAt, joinable, now,
                   issued, invoked, preCancelled, queuedCancelled, refused,
                   invokedAt>>

\* mutant of shutdown: the blocked workers are not notified
shutdown_noNotify(c, mode) ==
    /\ sd[c].pc = "idle"
    /\ \A d \in Callers : d < c => sd[d].pc # "idle"
    /\ accepting' = FALSE
    /\ shutdownMode' = mode
    /\ IF mode = "Immediate"
       THEN /\ queue' = {}
            /\ stopWorkers' = TRUE
            /\ dropped' = dropped \cup Ids(queue)
       ELSE /\ stopWorkers' = (stopWorkers \/ queue = {})
            /\ UNCHANGED <<queue, dropped>>
    /\ sd' = [sd EXCEPT ![c] = JoinFrom(c, mode, 1, joinable)]
    /\ UNCHANGED <<maxQueueSize_, cancelled, nextId, runningJobs,
                   completedJobs, totalWaitNs, pc, job, nextRunAt, joinable,
                   now, issued, invoked, preCancelled, queuedCancelled,
                   refused,
                   invokedAt>>

\* mutant of shutdown: a Graceful request stops the workers at once
shutdown_stopNow(c, mode) ==
    /\ sd[c].pc = "idle"
    /\ \A d \in Callers : d < c => sd[d].pc # "idle"
    /\ accepting' = FALSE
    /\ shutdownMode' = mode
    /\ stopWorkers' = TRUE
    /\ IF mode = "Immediate"
       THEN /\ queue' = {}
            /\ dropped' = dropped \cup Ids(queue)
       ELSE UNCHANGED <<queue, dropped>>
    /\ pc' = notify_all(pc)
    /\ sd' = [sd EXCEPT ![c] = JoinFrom(c, mode, 1, joinable)]
    /\ UNCHANGED <<maxQueueSize_, cancelled, nextId, runningJobs,
                   completedJobs, totalWaitNs, job, nextRunAt, joinable, now,
                   issued, invoked, preCancelled, queuedCancelled, refused,
                   invokedAt>>

\* Scheduler::shutdown, lines 191-207: the critical section and notify_all;
\* the caller goes on to joinWorkers.  Every calling thread makes one call;
\* the threads are interchangeable, so they call in the order of their index.
shutdown(c, mode) ==
    /\ sd[c].pc = "idle"
    /\ \A d \in Callers : d < c => sd[d].pc # "idle"
    /\ accepting' = FALSE
    /\ shutdownMode' = mode
    /\ IF mode = "Immediate"
       THEN /\ queue' = {}
            /\ stopWorkers' = TRUE
            /\ dropped' = dropped \cup Ids(queue)
       ELSE /\ stopWorkers' = (stopWorkers \/ queue = {})
            /\ UNCHANGED <<queue, dropped>>
    /\ pc' = notify_all(pc)
    /\ sd' = [sd EXCEPT ![c] = JoinFrom(c, mode, 1, joinable)]
    /\ UNCHANGED <<maxQueueSize_, cancelled, nextId, runningJobs,
                   completedJobs, totalWaitNs, job, nextRunAt, joinable, now,
                   issued, invoked, preCancelled, queuedCancelled, refused,
                   invokedAt>>

\* mutant of joinReturn: the caller does not wait for the thread to end
joinReturn_noWait(c) ==
    /\ sd[c].pc = "injoin"
    /\ joinable' = [joinable EXCEPT ![sd[c].i] = FALSE]
    /\ sd' = [sd EXCEPT ![c] = JoinFrom(c, sd[c].mode, sd[c].i, joinable')]
    /\ UNCHANGED <<maxQueueSize_, queue, cancelled, accepting, stopWorkers,
                   shutdownMode, nextId, runningJobs, completedJobs,
                   totalWaitNs, pc, job, nextRunAt, now, issued, invoked,
                   preCancelled, queuedCancelled, refused, dropped,
                   invokedAt>>

\* Scheduler::joinWorkers, line 329: join() returns once the thread has ended,
\* and the thread is no longer joinable
joinReturn(c) ==
    /\ sd[c].pc = "injoin"
    /\ pc[sd[c].i] = "exited"
    /\ joinable' = [joinable EXCEPT ![sd[c].i] = FALSE]
    /\ sd' = [sd EXCEPT ![c] = JoinFrom(c, sd[c].mode, sd[c].i, joinable')]
    /\ UNCHANGED <<maxQueueSize_, queue, cancelled, accepting, stopWorkers,
                   shutdownMode, nextId, runningJobs, completedJobs,
                   totalWaitNs, pc, job, nextRunAt, now, issued, invoked,
                   preCancelled, queuedCancelled, refused, dropped,
                   invokedAt>>

\* two threads inside join() of one std::thread, or join() of a thread that
\* another caller has joined meanwhile: the call fails with std::system_error,
\* which leaves shutdown() by exception (joinReturn is the other outcome)
joinThrow(c) ==
    /\ sd[c].pc = "injoin"
    /\ \/ ~joinable[sd[c].i]
       \/ \E d \in Callers \ {c} : sd[d].pc = "injoin" /\ sd[d].i = sd[c].i
    /\ sd' = [sd EXCEPT ![c] = [pc |-> "threw", mode |-> sd[c].mode, i |-> 1]]
    /\ UNCHANGED <<maxQueueSize_, queue, cancelled, accepting, stopWorkers,
                   shutdownMode, nextId, runningJobs, completedJobs,
                   totalWaitNs, pc, job, nextRunAt, joinable, now, issued,
                   invoked, preCancelled, queuedCancelled, refused, dropped,
                   invokedAt>>

\* shutdown(mode) has been called / has returned
Requested(mode) == \E c \in Callers : sd[c].pc # "idle" /\ sd[c].mode = mode
Returned(mode) == \E c \in Callers : sd[c].pc = "done" /\ sd[c].mode = mode

\* ------------------------------------------------------------ workerLoop
\* predicate of the wait at lines 272-274
PredEmpty ==
    stopWorkers \/ queue # {} \/ (~accepting /\ shutdownMode = "Graceful")

\* predicate of the wait_until at lines 282-284
PredTimed(w) ==
    IF stopWorkers \/ queue = {} THEN TRUE
    ELSE Top(queue).runAt < nextRunAt[w]

\* the worker holds the mutex at line 261: it has just locked it (line 257),
\* or its wait has returned (predicate true, or deadline of wait_until passed)
AtLoop(w) ==
    \/ pc[w] = "start"
    \/ pc[w] = "wokenE" /\ PredEmpty
    \/ pc[w] = "wokenT" /\ (PredTimed(w) \/ now >= nextRunAt[w])

\* mutant of NotDue: the worker does not look at the clock
NotDue_never(t) == FALSE

\* line 279: nextRunAt > Clock::now()
NotDue(t) == t > now

\* mutant of Skipped: the worker does not look at the cancellation map
Skipped_ignoreCancel(q, c) == [q |-> q, c |-> c]

\* lines 288-295 repeated: the queue and the cancellation map after the
\* worker has popped and skipped every due head that is cancelled
RECURSIVE Skipped(_, _)
Skipped(q, c) ==
    IF q # {} /\ ~NotDue(Top(q).runAt) /\ Top(q).id \in c
    THEN Skipped(q \ {Top(q)}, c \ {Top(q).id})
    ELSE [q |-> q, c |-> c]

\* line 261: if (stopWorkers_) return
workerStop(w) ==
    /\ AtLoop(w)
    /\ stopWorkers
    /\ pc' = [pc EXCEPT ![w] = "exited"]
    /\ nextRunAt' = [nextRunAt EXCEPT ![w] = 0]
    /\ UNCHANGED <<maxQueueSize_, queue, cancelled, accepting, stopWorkers,
                   shutdownMode, nextId, runningJobs, completedJobs,
                   totalWaitNs, job, joinable, sd, now, invoked,
                   preCancelled, queuedCancelled, refused, dropped, issued,
                   invokedAt>>

\* lines 263-270: the queue is drained during a Graceful shutdown
workerDrained(w) ==
    /\ AtLoop(w)
    /\ ~stopWorkers
    /\ Skipped(queue, cancelled).q = {}
    /\ ~accepting /\ shutdownMode = "Graceful"
    /\ queue' = {}
    /\ cancelled' = Skipped(queue, cancelled).c
    /\ stopWorkers' = TRUE
    /\ pc' = [notify_all(pc) EXCEPT ![w] = "exited"]
    /\ nextRunAt' = [nextRunAt EXCEPT ![w] = 0]
    /\ UNCHANGED <<maxQueueSize_, accepting, shutdownMode, nextId,
                   runningJobs, completedJobs, totalWaitNs, job, joinable,
                   sd, now, invoked, preCancelled, queuedCancelled, refused,
                   dropped, issued,
                   invokedAt>>

\* lines 263, 272-275: queueCv_.wait on an empty queue (its predicate is false
\* here, so the thread blocks and releases the mutex)
workerWaitEmpty(w) ==
    /\ AtLoop(w)
    /\ ~stopWorkers
    /\ Skipped(queue, cancelled).q = {}
    /\ ~(~accepting /\ shutdownMode = "Graceful")
    /\ queue' = {}
    /\ cancelled' = Skipped(queue, cancelled).c
    /\ pc' = [pc EXCEPT ![w] = "waitE"]
    /\ nextRunAt' = [nextRunAt EXCEPT ![w] = 0]
    /\ UNCHANGED <<maxQueueSize_, accepting, stopWorkers, shutdownMode,
                   nextId, runningJobs, completedJobs, totalWaitNs, job,
                   joinable, sd, now, invoked, preCancelled, queuedCancelled,
                   refused, dropped, issued,
                   invokedAt>>

\* lines 278-285: the head is not due, queueCv_.wait_until(nextRunAt)
workerWaitTimed(w) ==
    /\ AtLoop(w)
    /\ ~stopWorkers
    /\ Skipped(queue, cancelled).q # {}
    /\ NotDue(Top(Skipped(queue, cancelled).q).runAt)
    /\ queue' = Skipped(queue, cancelled).q
    /\ cancelled' = Skipped(queue, cancelled).c
    /\ nextRunAt' = [nextRunAt EXCEPT ![w] = Top(Skipped(queue, cancelled).q).runAt]
    /\ pc' = [pc EXCEPT ![w] = "waitT"]
    /\ UNCHANGED <<maxQueueSize_, accepting, stopWorkers, shutdownMode,
                   nextId, runningJobs, completedJobs, totalWaitNs, job,
                   joinable, sd, now, invoked, preCancelled, queuedCancelled,
                   refused, dropped, issued,
                   invokedAt>>

\* mutant of workerPop: the head is copied (line 288) but not popped
workerPop_noRemove(w) ==
    /\ AtLoop(w)
    /\ ~stopWorkers
    /\ Skipped(queue, cancelled).q # {}
    /\ ~NotDue(Top(Skipped(queue, cancelled).q).runAt)
    /\ queue' = Skipped(queue, cancelled).q
    /\ cancelled' = Skipped(queue, cancelled).c
    /\ job' = [job EXCEPT ![w] = Top(Skipped(queue, cancelled).q)]
    /\ pc' = [pc EXCEPT ![w] = "unlocked"]
    /\ nextRunAt' = [nextRunAt EXCEPT ![w] = 0]
    /\ UNCHANGED <<maxQueueSize_, accepting, stopWorkers, shutdownMode,
                   nextId, runningJobs, completedJobs, totalWaitNs, joinable,
                   sd, now, invoked, preCancelled, queuedCancelled, refused,
                   dropped, issued,
                   invokedAt>>

\* lines 288-300: pop the due head that is not cancelled, leave the inner
\* loop and unlock
workerPop(w) ==
    /\ AtLoop(w)
    /\ ~stopWorkers
    /\ Skipped(queue, cancelled).q # {}
    /\ ~NotDue(Top(Skipped(queue, cancelled).q).runAt)
    /\ queue' = Skipped(queue, cancelled).q \ {Top(Skipped(queue, cancelled).q)}
    /\ cancelled' = Skipped(queue, cancelled).c
    /\ job' = [job EXCEPT ![w] = Top(Skipped(queue, cancelled).q)]
    /\ pc' = [pc EXCEPT ![w] = "unlocked"]
    /\ nextRunAt' = [nextRunAt EXCEPT ![w] = 0]
    /\ UNCHANGED <<maxQueueSize_, accepting, stopWorkers, shutdownMode,
                   nextId, runningJobs, completedJobs, totalWaitNs, joinable,
                   sd, now, invoked, preCancelled, queuedCancelled, refused,
                   dropped, issued,
                   invokedAt>>

\* an unblocked waiter reacquires the mutex, finds its predicate false (and,
\* for wait_until, the deadline not reached) and blocks again
workerRewait(w) ==
    /\ \/ pc[w] = "wokenE" /\ ~PredEmpty
       \/ pc[w] = "wokenT" /\ ~(PredTimed(w) \/ now >= nextRunAt[w])
    /\ pc' = [pc EXCEPT ![w] = IF pc[w] = "wokenE" THEN "waitE" ELSE "waitT"]
    /\ UNCHANGED <<maxQueueSize_, queue, cancelled, accepting, stopWorkers,
                   shutdownMode, nextId, runningJobs, completedJobs,
                   totalWaitNs, job, nextRunAt, joinable, sd, now, invoked,
                   preCancelled, queuedCancelled, refused, dropped, issued,
                   invokedAt>>

\* the deadline of wait_until passes
workerTimeout(w) ==
    /\ pc[w] = "waitT"
    /\ now >= nextRunAt[w]
    /\ pc' = [pc EXCEPT ![w] = "wokenT"]
    /\ UNCHANGED <<maxQueueSize_, queue, cancelled, accepting, stopWorkers,
                   shutdownMode, nextId, runningJobs, completedJobs,
                   totalWaitNs, job, nextRunAt, joinable, sd, now, invoked,
                   preCancelled, queuedCancelled, refused, dropped, issued,
                   invokedAt>>

\* a condition variable may unblock a waiter without a notification
spuriousWakeup(w) ==
    /\ w \in Waiting(pc)
    /\ pc' = Wake(pc, {w})
    /\ UNCHANGED <<maxQueueSize_, queue, cancelled, accepting, stopWorkers,
                   shutdownMode, nextId, runningJobs, completedJobs,
                   totalWaitNs, job, nextRunAt, joinable, sd, now, invoked,
                   preCancelled, queuedCancelled, refused, dropped, issued,
                   invokedAt>>

\* lines 301-305: runningJobs_.fetch_add(1), then job.fn() is entered
workerInvoke(w) ==
    /\ pc[w] = "unlocked"
    /\ runningJobs' = runningJobs + 1
    /\ invoked' = invoked \cup {job[w].id}
    /\ invokedAt' = [invokedAt EXCEPT ![w] = now]
    /\ pc' = [pc EXCEPT ![w] = "running"]
    /\ UNCHANGED <<maxQueueSize_, queue, cancelled, accepting, stopWorkers,
                   shutdownMode, nextId, completedJobs, totalWaitNs, job,
                   nextRunAt, joinable, sd, now, preCancelled,
                   queuedCancelled, refused, dropped, issued>>

\* line 305: job.fn() returns
closureReturn(w) ==
    /\ pc[w] = "running"
    /\ pc' = [pc EXCEPT ![w] = "returned"]
    /\ UNCHANGED <<maxQueueSize_, queue, cancelled, accepting, stopWorkers,
                   shutdownMode, nextId, runningJobs, completedJobs,
                   totalWaitNs, job, nextRunAt, joinable, sd, now, invoked,
                   preCancelled, queuedCancelled, refused, dropped, issued,
                   invokedAt>>

\* line 305: job.fn() throws, control enters catch(...) at line 306
closureThrow(w) ==
    /\ pc[w] = "running"
    /\ pc' = [pc EXCEPT ![w] = "caught"]
    /\ UNCHANGED <<maxQueueSize_, queue, cancelled, accepting, stopWorkers,
                   shutdownMode, nextId, runningJobs, completedJobs,
                   totalWaitNs, job, nextRunAt, joinable, sd, now, invoked,
                   preCancelled, queuedCancelled, refused, dropped, issued,
                   invokedAt>>

\* mutant of workerFinish: no handler, an exception ends the worker thread
workerFinish_dies(w) ==
    /\ pc[w] \in {"returned", "caught"}
    /\ IF pc[w] = "caught"
       THEN /\ pc' = [pc EXCEPT ![w] = "exited"]
            /\ UNCHANGED <<totalWaitNs, completedJobs, runningJobs, job>>
       ELSE /\ totalWaitNs' = IF now - job[w].enqueuedAt > 0
                              THEN totalWaitNs + (now - job[w].enqueuedAt)
                              ELSE totalWaitNs
            /\ completedJobs' = completedJobs + 1
            /\ runningJobs' = runningJobs - 1
            /\ job' = [job EXCEPT ![w] = NoJob]
            /\ pc' = [pc EXCEPT ![w] = "start"]
    /\ invokedAt' = [invokedAt EXCEPT ![w] = 0]
    /\ UNCHANGED <<maxQueueSize_, queue, cancelled, accepting, stopWorkers,
                   shutdownMode, nextId, nextRunAt, joinable, sd, now,
                   issued, invoked, preCancelled, queuedCancelled, refused,
                   dropped>>

\* lines 313-322, reached after the try block or after the handler:
\* waitNs = Clock::now() - job.enqueuedAt is added when positive,
\* completedJobs_ is incremented, runningJobs_ decremented, and the outer
\* loop starts over
workerFinish(w) ==
    /\ pc[w] \in {"returned", "caught"}
    /\ totalWaitNs' = IF now - job[w].enqueuedAt > 0
                      THEN totalWaitNs + (now - job[w].enqueuedAt)
                      ELSE totalWaitNs
    /\ completedJobs' = completedJobs + 1
    /\ runningJobs' = runningJobs - 1
    /\ job' = [job EXCEPT ![w] = NoJob]
    /\ pc' = [pc EXCEPT ![w] = "start"]
    /\ invokedAt' = [invokedAt EXCEPT ![w] = 0]
    /\ UNCHANGED <<maxQueueSize_, queue, cancelled, accepting, stopWorkers,
                   shutdownMode, nextId, nextRunAt, joinable, sd, now,
                   invoked, preCancelled, queuedCancelled, refused, dropped,
                   issued>>

\* ------------------------------------------------------------------ clock
Tick ==
    /\ now < MaxTime
    /\ now' = now + 1
    /\ UNCHANGED <<maxQueueSize_, queue, cancelled, accepting, stopWorkers,
                   shutdownMode, nextId, runningJobs, completedJobs,
                   totalWaitNs, pc, job, nextRunAt, joinable, sd, invoked,
                   preCancelled, queuedCancelled, refused, dropped, issued,
                   invokedAt>>

\* ---------------------------------------------------------- specification
\* the steps of the worker threads and of the clock
WorkerNext ==
    \/ \E w \in Workers : workerStop(w)
    \/ \E w \in Workers : workerDrained(w)
    \/ \E w \in Workers : workerWaitEmpty(w)
    \/ \E w \in Workers : workerWaitTimed(w)
    \/ \E w \in Workers : workerPop(w)
    \/ \E w \in Workers : workerRewait(w)
    \/ \E w \in Workers : workerTimeout(w)
    \/ \E w \in Workers : spuriousWakeup(w)
    \/ \E w \in Workers : workerInvoke(w)
    \/ \E w \in Workers : closureReturn(w)
    \/ \E w \in Workers : closureThrow(w)
    \/ \E w \in Workers : workerFinish(w)
    \/ Tick

\* Clients as in main(): every job is submitted with Priority::Normal; any
\* thread may call shutdown() in either mode, also while another call is
\* still inside it.
Next ==
    \/ \E r \in TimePoints : schedule(r, Normal)
    \/ \E id \in JobIds : cancel(id, FALSE)
    \/ \E c \in Callers, m \in ShutdownMode : shutdown(c, m)
    \/ \E c \in Callers : joinReturn(c)
    \/ \E c \in Callers : joinThrow(c)
    \/ WorkerNext

Spec == Init /\ [][Next]_vars

\* Clients that submit jobs of every priority; one thread shuts the scheduler
\* down gracefully.
NextPriority ==
    \/ \E r \in TimePoints, p \in Priority : schedule(r, p)
    \/ shutdown(1, "Graceful")
    \/ joinReturn(1)
    \/ WorkerNext

SpecPriority == Init /\ [][NextPriority]_vars

\* Clients whose cancel() calls are observed; one thread shuts the scheduler
\* down gracefully.
NextCancel ==
    \/ \E r \in TimePoints : schedule(r, Normal)
    \/ \E id \in JobIds : cancel(id, TRUE)
    \/ shutdown(1, "Graceful")
    \/ joinReturn(1)
    \/ WorkerNext

SpecCancel == Init /\ [][NextCancel]_vars

\* the steps of worker w that the thread makes on its own once it can run
\* (a spurious wakeup is something that may happen to it, not a step it makes)
workerStep(w) ==
    \/ workerStop(w)
    \/ workerDrained(w)
    \/ workerWaitEmpty(w)
    \/ workerWaitTimed(w)
    \/ workerPop(w)
    \/ workerRewait(w)
    \/ workerTimeout(w)
    \/ workerInvoke(w)
    \/ closureReturn(w)
    \/ closureThrow(w)
    \/ workerFinish(w)

\* Clients that submit and cancel; one thread shuts the scheduler down
\* gracefully.  Every thread that can run is scheduled eventually, every
\* closure ends, a join() whose thread has ended returns, the clock advances.
NextLive ==
    \/ \E r \in TimePoints : schedule(r, Normal)
    \/ \E id \in JobIds : cancel(id, FALSE)
    \/ shutdown(1, "Graceful")
    \/ joinReturn(1)
    \/ WorkerNext

Fairness ==
    /\ \A w \in Workers : WF_vars(workerStep(w))
    /\ WF_vars(joinReturn(1))
    /\ WF_vars(Tick)

SpecLive == Init /\ [][NextLive]_vars /\ Fairness

\* ----------------------------------------------------------- properties
IssuedIds == {issued[i] : i \in DOMAIN issued}

\* ids of the jobs a worker popped and discarded as cancelled
SkippedIds ==
    {id \in IssuedIds : /\ id \notin Ids(queue)
                        /\ id \notin invoked
                        /\ id \notin dropped
                        /\ \A w \in Workers : job[w].id # id}

\* a worker step removes job j from the queue
\* (an Immediate shutdown empties the queue too, and changes sd)
Pops(j) == j \in queue /\ j \notin queue' /\ sd' = sd

\* C1: once a Graceful shutdown() has returned and no Immediate shutdown was
\* requested, the number of invoked closures is the number of accepted
\* submissions minus the number of jobs whose cancel was accepted before
\* their pop; without such cancels it is the number of accepted submissions.
C1_GracefulDrainsAll ==
    (Returned("Graceful") /\ ~Requested("Immediate")) =>
        /\ Cardinality(invoked) =
               Len(issued) - Cardinality(preCancelled \cap IssuedIds)
        /\ preCancelled = {} => Cardinality(invoked) = Len(issued)

C1_Witness ==
    /\ Returned("Graceful") /\ ~Requested("Immediate")
    /\ Len(issued) = 2
    /\ Cardinality(invoked) = 1
    /\ Cardinality(preCancelled \cap IssuedIds) = 1

\* C2: a job whose cancel was accepted before any worker popped it is never
\* invoked, whatever the shutdown mode.
C2_CancelledNeverInvoked == preCancelled \cap invoked = {}

C2_Witness ==
    \E id \in preCancelled : id \in SkippedIds /\ invoked # {}

\* C3: a worker removes a job from the queue, and enters its closure, only
\* at a clock value that is not earlier than the job's runAt.
C3_NotBeforeRunAt ==
    [][/\ \A j \in queue : Pops(j) => j.runAt <= now
       /\ \A w \in Workers :
             (pc[w] # "running" /\ pc'[w] = "running") => job[w].runAt <= now
      ]_vars

C3_Witness ==
    \E w \in Workers : /\ pc[w] = "running"
                       /\ job[w].runAt = 1
                       /\ job[w].enqueuedAt = 0
                       /\ job[w].priority = High
                       /\ ~accepting

\* C4: a job that was in the queue when shutdown(Immediate) was requested is
\* never invoked, and no closure is entered once a shutdown(Immediate) call
\* has returned.
C4_ImmediateDrops ==
    /\ [](dropped \cap invoked = {})
    /\ [][Returned("Immediate") => invoked' = invoked]_vars

C4_Witness ==
    Returned("Immediate") /\ dropped # {} /\ invoked # {}

\* C5: when a worker pops a job while another job with the same runAt stays
\* in the queue, the popped one has the higher priority, or the same
\* priority and the lower id.
C5_PriorityThenId ==
    [][\A j \in queue : Pops(j) =>
          \A k \in queue' :
              k.runAt = j.runAt =>
                  \/ j.priority > k.priority
                  \/ j.priority = k.priority /\ j.id < k.id
      ]_vars

C5_Witness ==
    \E w \in Workers : \E k \in queue :
        /\ pc[w] = "unlocked"
        /\ job[w].runAt = k.runAt
        /\ job[w].priority = High /\ k.priority = Low
        /\ job[w].id > k.id

\* C6: schedule() rejects, leaving the queue, the id counter and the
\* cancellation set as they are, exactly when accepting is false or the queue
\* holds maxQueueSize_ jobs; otherwise it returns the id of the job it has
\* added; the queue never holds more than maxQueueSize_ jobs.
C6_Backpressure ==
    /\ [](Cardinality(queue) <= maxQueueSize_)
    /\ [][\A r \in TimePoints : schedule(r, Normal) =>
             IF ~accepting \/ Cardinality(queue) >= maxQueueSize_
             THEN /\ scheduleReturn = nullopt
                  /\ UNCHANGED <<queue, nextId, cancelled>>
             ELSE /\ scheduleReturn # nullopt
                  /\ Ids(queue') = Ids(queue) \cup {scheduleReturn}
                  /\ Cardinality(queue') = Cardinality(queue) + 1
         ]_vars

C6_Witness ==
    /\ accepting
    /\ Cardinality(queue) = maxQueueSize_
    /\ nextId <= MaxJobs

\* C7: the ids returned by accepted schedule() calls start at 1 and increase
\* strictly in call order, and the id counter moves only on accepted calls.
C7_IdsIncrease ==
    /\ Len(issued) > 0 => issued[1] = 1
    /\ \A i, k \in DOMAIN issued : i < k => issued[i] < issued[k]
    /\ nextId = Len(issued) + 1

C7_Witness ==
    Len(issued) = 2 /\ issued[2] = 2 /\ ~accepting

\* C8: cancel() is refused exactly when accepting is false and then leaves the
\* cancellation set as it is; a job whose cancel was refused while it was
\* queued during a Graceful drain (and never accepted) has been invoked when
\* the shutdown returns.
C8_CancelRefusedIffNotAccepting ==
    /\ [][\A id \in JobIds : cancel(id, TRUE) =>
             /\ (cancelReturn = FALSE) <=> ~accepting
             /\ ~accepting => cancelled' = cancelled
             /\ accepting => id \in cancelled'
         ]_vars
    /\ [](Returned("Graceful") => (refused \ preCancelled) \subseteq invoked)

C8_Witness ==
    Returned("Graceful") /\ \E id \in refused : id \in invoked

\* C9: only a cancel made while the job is queued can keep a closure from
\* being invoked: every job a worker discarded as cancelled had a cancel
\* accepted while it was in the queue.
C9_UnknownCancelIneffective == SkippedIds \subseteq queuedCancelled

\* C10: the step a worker makes after its closure threw increments
\* completedJobs, decrements runningJobs and takes the worker back to the top
\* of its loop.
C10_ThrowKeepsWorker ==
    [][\A w \in Workers :
          (pc[w] = "caught" /\ pc'[w] # "caught") =>
              /\ pc'[w] = "start"
              /\ completedJobs' = completedJobs + 1
              /\ runningJobs' = runningJobs - 1
      ]_vars

C10_Witness ==
    \E w \in Workers : pc[w] = "caught" /\ queue # {}

\* C11: when a shutdown() call has returned, every worker thread has left
\* workerLoop, no closure is being executed (every closure that was entered
\* has run to its end and was counted), and the queue is empty.
C11_ReturnedMeansStopped ==
    (\E c \in Callers : sd[c].pc = "done") =>
        /\ \A w \in Workers : pc[w] = "exited"
        /\ runningJobs = 0
        /\ completedJobs = Cardinality(invoked)
        /\ queue = {}

C11_Witness ==
    \E c \in Callers : /\ sd[c].pc = "done"
                       /\ sd[c].mode = "Immediate"
                       /\ completedJobs = 1
                       /\ Cardinality(dropped) = 1

\* C12: once a shutdown has been requested accepting is false and stays
\* false; from then on schedule() returns nullopt, cancel() returns false,
\* no job enters the queue, no id is allocated and no id is marked cancelled.
C12_AcceptingStaysFalse ==
    /\ []((\E c \in Callers : sd[c].pc # "idle") => ~accepting)
    /\ [](~accepting => scheduleReturn = nullopt /\ cancelReturn = FALSE)
    /\ [][~accepting => /\ ~accepting'
                        /\ queue' \subseteq queue
                        /\ cancelled' \subseteq cancelled
                        /\ nextId' = nextId]_vars

C12_Witness ==
    /\ ~accepting
    /\ queue # {}
    /\ Cardinality(queue) < maxQueueSize_
    /\ nextId <= MaxJobs
    /\ \E id \in JobIds : id \in Ids(queue) /\ id \notin cancelled

\* C13: a shutdown() call made when stopWorkers is true and every worker has
\* been joined changes none of accepting, stopWorkers, shutdownMode, the
\* queue, the cancellation set and the counters, and joins no thread.
C13_RepeatedShutdownNoOp ==
    [][\A c \in Callers, m \in ShutdownMode :
          (/\ stopWorkers
           /\ \A w \in Workers : ~joinable[w]
           /\ shutdown(c, m)) =>
              /\ UNCHANGED <<accepting, stopWorkers, shutdownMode, queue,
                             cancelled, runningJobs, completedJobs,
                             totalWaitNs, joinable>>
              /\ sd'[c].pc = "done"
      ]_vars

\* C14: when shutdown(Immediate) is called while the queue of an earlier
\* shutdown(Graceful) is not drained yet (so that it discards jobs), the
\* queue is empty and stopWorkers is true from then on, no discarded closure
\* is invoked, and neither call fails to return (none leaves by exception).
C14_EscalationReturns ==
    (/\ sd[1].pc # "idle" /\ sd[1].mode = "Graceful"
     /\ sd[2].pc # "idle" /\ sd[2].mode = "Immediate"
     /\ dropped # {}) =>
        /\ queue = {}
        /\ stopWorkers
        /\ dropped \cap invoked = {}
        /\ sd[1].pc # "threw"
        /\ sd[2].pc # "threw"

\* C15: no two callers are inside join() of the same worker thread at the
\* same time, and no caller is inside join() of a thread that has been joined.
C15_JoinedExactlyOnce ==
    \A c \in Callers :
        sd[c].pc = "injoin" =>
            /\ joinable[sd[c].i]
            /\ \A d \in Callers \ {c} :
                   ~(sd[d].pc = "injoin" /\ sd[d].i = sd[c].i)

\* C16: after shutdown(Graceful) is requested, every worker eventually leaves
\* workerLoop and the call eventually returns, whatever the queue holds
\* (closures end, the clock advances, threads that can run do run).
C16_GracefulTerminates ==
    Requested("Graceful") ~>
        (Returned("Graceful") /\ \A w \in Workers : pc[w] = "exited")

C16_Witness ==
    /\ ~accepting
    /\ ~stopWorkers
    /\ queue # {}
    /\ Ids(queue) \subseteq cancelled
    /\ \E w \in Workers : pc[w] = "waitT"

\* C17: a job popped by a worker has the smallest runAt of the jobs in the
\* queue at that moment, whatever their priorities.
C17_TimeBeforePriority ==
    [][\A j \in queue : Pops(j) => \A k \in queue : j.runAt <= k.runAt]_vars

C17_Witness ==
    \E w \in Workers : \E k \in queue :
        /\ pc[w] = "unlocked"
        /\ job[w].priority = Low /\ k.priority = High
        /\ job[w].runAt < k.runAt
        /\ k.runAt <= now
        /\ k.enqueuedAt < job[w].enqueuedAt

\* C18: in every state in which the mutex is free, every accepted job is
\* counted: it is in the queue, or counted in runningJobs, or completed, or
\* was skipped as cancelled, or was dropped.
C18_EveryJobAccounted ==
    Len(issued) <= Cardinality(queue) + runningJobs + completedJobs
                   + Cardinality(SkippedIds) + Cardinality(dropped)

\* C19: with two or more workers, whenever a queued job that is not
\* cancelled is due and some worker is not executing a closure, some worker
\* that is not executing a closure is awake or has a wait deadline <= now.
C19_OneSignalSuffices ==
    (/\ NumWorkers >= 2
     /\ \E j \in queue : j.id \notin cancelled /\ j.runAt <= now
     /\ \E w \in Workers : pc[w] # "running") =>
        \E w \in Workers :
            \/ pc[w] \in {"start", "wokenE", "wokenT", "unlocked",
                          "returned", "caught"}
            \/ pc[w] = "waitT" /\ nextRunAt[w] <= now

\* C20: when schedule() inserts a job whose runAt is strictly earlier than
\* the runAt of the head, every worker blocked in the timed wait on that
\* head's runAt is woken.
C20_EarlierHeadWakesWaiters ==
    [][\A r \in TimePoints :
          (/\ schedule(r, Normal)
           /\ scheduleReturn # nullopt
           /\ IF queue = {} THEN FALSE ELSE r < Top(queue).runAt) =>
              \A w \in Workers :
                  (/\ pc[w] = "waitT"
                   /\ nextRunAt[w] = Top(queue).runAt
                   /\ nextRunAt[w] > now) => pc'[w] = "wokenT"
      ]_vars

\* ids of the jobs a worker holds between its pop and the end of workerLoop's
\* iteration
HeldIds ==
    {job[w].id : w \in {v \in Workers :
                          pc[v] \in {"unlocked", "running", "returned", "caught"}}}

\* C21: the queue holds a job at most once; a job in the queue is held by no
\* worker and was neither invoked nor dropped; no job is held by two workers;
\* a held job was not dropped; a job leaves the queue for good, and a worker
\* gets its job from the queue only; every invoked closure was invoked once
\* (the completed and the running ones add up to the invoked ids).
C21_ExactlyOneState ==
    /\ [](/\ Cardinality(Ids(queue)) = Cardinality(queue)
          /\ Ids(queue) \cup HeldIds \subseteq IssuedIds
          /\ Ids(queue) \cap (HeldIds \cup invoked \cup dropped) = {}
          /\ HeldIds \cap dropped = {}
          /\ \A v, w \in Workers :
                (v # w /\ pc[v] \in {"unlocked", "running", "returned", "caught"}
                       /\ pc[w] \in {"unlocked", "running", "returned", "caught"})
                    => job[v].id # job[w].id
          /\ Cardinality(invoked) = completedJobs + runningJobs
          /\ invoked \subseteq IssuedIds)
    /\ [][/\ \A id \in IssuedIds : id \notin Ids(queue) => id \notin Ids(queue')
          /\ \A w \in Workers :
                (job'[w] # job[w] /\ job'[w] # NoJob) =>
                    job'[w] \in queue /\ job'[w] \notin queue'
         ]_vars

C21_Witness ==
    /\ \E w \in Workers : pc[w] = "running"
    /\ dropped # {}
    /\ completedJobs = 0

\* C22: stopWorkers implies that accepting is false and the queue is empty; it
\* becomes true only in an Immediate shutdown, in a Graceful shutdown that finds
\* the queue empty, or in a worker that finds the queue empty while draining;
\* once true it stays true.
C22_StopWorkersMonotonic ==
    /\ [](stopWorkers => ~accepting /\ queue = {})
    /\ [][stopWorkers => stopWorkers']_vars
    /\ [][(~stopWorkers /\ stopWorkers') =>
             \/ \E c \in Callers : shutdown(c, "Immediate")
             \/ \E c \in Callers : shutdown(c, "Graceful") /\ queue = {}
             \/ \E w \in Workers : workerDrained(w)
         ]_vars

C22_Witness ==
    /\ stopWorkers
    /\ ~Requested("Immediate")
    /\ completedJobs = 2
    /\ \A w \in Workers : pc[w] = "exited"

\* C23: the queue is empty whenever shutdownMode is Immediate, and it stays
\* empty once an Immediate shutdown was requested, whatever the later calls.
C23_ImmediateMeansEmpty ==
    (shutdownMode = "Immediate" \/ Requested("Immediate")) => queue = {}

C23_Witness ==
    /\ sd[1].pc # "idle" /\ sd[1].mode = "Immediate"
    /\ sd[2].pc # "idle" /\ sd[2].mode = "Graceful"
    /\ shutdownMode = "Graceful"
    /\ Cardinality(dropped) = 2

\* C24: while no shutdown is requested, a non-empty queue never has all the
\* workers blocked unless one of them is in the timed wait with a deadline
\* that is not later than the head's runAt; and every queued job is
\* eventually invoked, unless a cancel for it is accepted or a shutdown is
\* requested.
C24_NoStarvation ==
    /\ []((accepting /\ queue # {} /\ \A w \in Workers : w \in Waiting(pc)) =>
             \E w \in Workers :
                 /\ pc[w] = "waitT"
                 /\ IF queue = {} THEN TRUE
                    ELSE nextRunAt[w] <= Top(queue).runAt)
    /\ \A id \in JobIds :
           (id \in Ids(queue)) ~>
               (id \in invoked \/ id \in preCancelled \/ ~accepting)

C24_Witness ==
    /\ accepting
    /\ Cardinality(queue) = 2
    /\ \E v, w \in Workers : pc[v] = "waitT" /\ pc[w] = "waitE"
    /\ Ids(queue) \cap cancelled = {}

\* C25: the latency a worker adds to totalWaitNs for a job is the clock value
\* at which it entered the closure minus the job's enqueuedAt, however long
\* the closure ran.
C25_LatencyAtInvocation ==
    [][\A w \in Workers :
          (pc[w] \in {"returned", "caught"} /\ pc'[w] = "start") =>
              totalWaitNs' - totalWaitNs = invokedAt[w] - job[w].enqueuedAt
      ]_vars

====
